---- MODULE Spec2Model ----
(***************************************************************************)
(* Model of the Qarnot MCP server: the bearer-token authenticator, the     *)
(* five use cases, the Qarnot gateway adapter and the MCP tool handlers.   *)
(*                                                                         *)
(* Python strings are sequences of one-character strings; an Optional      *)
(* value is a sequence of length 0 (None) or 1.                            *)
(***************************************************************************)
EXTENDS Integers, Sequences, FiniteSets, TLC

VARIABLES
    validToken,   \* BearerTokenAuth._valid_token
    authCall,     \* the call made to the authenticator: [op, arg]
    authOut,      \* its outcome: [kind, value, msg, arg]
    authLog,      \* the "extra" values that call handed to the logger
    ucCall,       \* the use case executed and its arguments: [uc, args]
    portReply,    \* the outcome the QarnotPort gives to the use case's call
    portCalls,    \* the QarnotPort calls the use case made, in order
    ucOut,        \* the outcome of the use case
    clock,        \* the reading of datetime.utcnow()
    gwCall,       \* the QarnotAdapter call last made: [op, args, fault]
    gwOut,        \* its outcome
    issuedIds,    \* the job_id of every Job submit_job has returned, in order
    toolCall,     \* the MCP tool call: [tool, header, request, fault]
    toolEvents,   \* what the tool handler did, in order: [layer, op, args]
    toolOut,      \* the outcome of the tool call
    apiToken,     \* QarnotAdapter._api_token
    apiUrl,       \* QarnotAdapter._api_url
    pager,        \* a client paging through list_jobs: [limit, total, offset, received, calls]
    entity,       \* a Job or JobResult object a caller holds: [type, obj]
    assignCall,   \* the assignment the caller tries on it: [field, value]
    assignOut     \* the outcome of that assignment

authVars == <<validToken, authCall, authOut, authLog>>

ucVars == <<ucCall, portReply, portCalls, ucOut>>

gwVars == <<clock, gwCall, gwOut, issuedIds, apiToken, apiUrl>>

toolVars == <<toolCall, toolEvents, toolOut>>

clientVars == <<pager, entity, assignCall, assignOut>>

vars == <<authVars, ucVars, gwVars, toolVars, clientVars>>

(***************************************************************************)
(* Strings                                                                 *)
(***************************************************************************)
None == <<>>

Some(x) == <<x>>

\* The characters str.split() with no argument treats as separators.
Whitespace == {" ", "\t", "\n"}

\* The characters secrets.compare_digest accepts in a str argument.
AsciiChars ==
    {"a", "b", "c", "d", "e", "f", "g", "h", "i", "j", "k", "l", "m", "n",
     "o", "p", "q", "r", "s", "t", "u", "v", "w", "x", "y", "z",
     "A", "B", "C", "D", "E", "F", "G", "H", "I", "J", "K", "L", "M", "N",
     "O", "P", "Q", "R", "S", "T", "U", "V", "W", "X", "Y", "Z",
     "0", "1", "2", "3", "4", "5", "6", "7", "8", "9",
     "-", "_", ".", "*", " ", "\t", "\n"}

\* The character U+00E9 (e with acute accent), which is not ASCII.
NonAscii == "U+00E9"

UpperLetters ==
    <<"A", "B", "C", "D", "E", "F", "G", "H", "I", "J", "K", "L", "M",
      "N", "O", "P", "Q", "R", "S", "T", "U", "V", "W", "X", "Y", "Z">>

LowerLetters ==
    <<"a", "b", "c", "d", "e", "f", "g", "h", "i", "j", "k", "l", "m",
      "n", "o", "p", "q", "r", "s", "t", "u", "v", "w", "x", "y", "z">>

\* str.lower() on one character.
LowerChar(c) ==
    IF \E i \in DOMAIN UpperLetters : UpperLetters[i] = c
    THEN LowerLetters[CHOOSE i \in DOMAIN UpperLetters : UpperLetters[i] = c]
    ELSE c

\* str.lower()
Lower(s) == [i \in DOMAIN s |-> LowerChar(s[i])]

\* s[:n]
Prefix(s, n) == SubSeq(s, 1, IF Len(s) < n THEN Len(s) ELSE n)

RECURSIVE SplitFrom(_, _, _, _)
SplitFrom(s, i, cur, acc) ==
    IF i > Len(s)
    THEN IF cur = <<>> THEN acc ELSE Append(acc, cur)
    ELSE IF s[i] \in Whitespace
         THEN SplitFrom(s, i + 1, <<>>, IF cur = <<>> THEN acc ELSE Append(acc, cur))
         ELSE SplitFrom(s, i + 1, Append(cur, s[i]), acc)

\* str.split(): the maximal runs of non-whitespace characters, in order.
Split(s) == SplitFrom(s, 1, <<>>, <<>>)

RECURSIVE Concat(_)
Concat(ss) == IF ss = <<>> THEN <<>> ELSE Head(ss) \o Concat(Tail(ss))

(***************************************************************************)
(* Outcomes of a call: a returned value or a raised exception.             *)
(***************************************************************************)
\* What an exception carries besides its kind and message: the job_id and
\* current_status attributes of the job errors, the text of the message
\* where it is formatted from other values (a scheme, a job id, the str() of
\* a caught exception), and the kind of the exception it was formatted from.
Info(id, status, text, cause) ==
    [job_id |-> id, current_status |-> status, text |-> text, cause |-> cause]

NoInfo == Info(<<>>, "", <<>>, "")

Text(t) == Info(<<>>, "", t, "")

Returned(v) == [kind |-> "return", value |-> v, msg |-> "", arg |-> NoInfo]

Raised(k, m, a) == [kind |-> k, value |-> <<>>, msg |-> m, arg |-> a]

\* The value True that validate_token returns.
PyTrue == <<"True">>

NoOutcome == [kind |-> "none", value |-> <<>>, msg |-> "", arg |-> NoInfo]

\* The components a specification does not exercise stay as constructed.
AuthIdle ==
    /\ authCall = [op |-> "none", arg |-> None]
    /\ authOut = NoOutcome
    /\ authLog = {}

UseCaseIdle ==
    /\ ucCall = [uc |-> "none"]
    /\ portReply = NoOutcome
    /\ portCalls = <<>>
    /\ ucOut = NoOutcome

\* Settings.qarnot_api_token and Settings.qarnot_api_url
QarnotApiToken == "qarnot-api-token"

QarnotApiUrl == "https://api.qarnot.com"

GatewayIdle ==
    /\ gwCall = [op |-> "none"]
    /\ gwOut = NoOutcome
    /\ issuedIds = <<>>
    /\ apiToken = QarnotApiToken
    /\ apiUrl = QarnotApiUrl

ToolIdle ==
    /\ toolCall = [tool |-> "none"]
    /\ toolEvents = <<>>
    /\ toolOut = NoOutcome

\* No client is paging.
PagerIdle == pager = [calls |-> 0]

\* No caller is holding an entity.
EntityIdle ==
    /\ entity = [type |-> "none"]
    /\ assignCall = [field |-> "none"]
    /\ assignOut = NoOutcome

ClientIdle == PagerIdle /\ EntityIdle

(***************************************************************************)
(* BearerTokenAuth                                                         *)
(***************************************************************************)
\* The length from which validate_token logs the token's first characters.
TokenPrefixLen == 8

IsAscii(s) == \A i \in DOMAIN s : s[i] \in AsciiChars

\* secrets.compare_digest(a, b) on two str: TypeError unless both are ASCII.
CompareDigestRaises(a, b) == ~(IsAscii(a) /\ IsAscii(b))

CompareDigest(a, b) == a = b

\* token is an Optional str: "not token" holds of None and of the empty string.
ValidateTokenOutcome(token, secret) ==
    IF token = None \/ token[1] = <<>>
    THEN Raised("AuthenticationError", "Bearer token is required", NoInfo)
    ELSE IF CompareDigestRaises(token[1], secret)
    THEN Raised("TypeError",
                "comparing strings with non-ASCII characters is not supported", NoInfo)
    ELSE IF ~CompareDigest(token[1], secret)
    THEN Raised("AuthenticationError", "Invalid bearer token", NoInfo)
    ELSE Returned(PyTrue)

\* The token_prefix logged on a failed comparison.
TokenPrefix(token) ==
    IF Len(token) >= TokenPrefixLen THEN Prefix(token, TokenPrefixLen)
    ELSE <<"*", "*", "*">>

ValidateTokenLog(token, secret) ==
    IF token = None \/ token[1] = <<>>
    THEN {}
    ELSE IF CompareDigestRaises(token[1], secret)
    THEN {}
    ELSE IF ~CompareDigest(token[1], secret)
    THEN {[key |-> "token_prefix", text |-> TokenPrefix(token[1])]}
    ELSE {}

BearerScheme == <<"b", "e", "a", "r", "e", "r">>

\* ExtractTokenOutcome with the scheme tested before the number of parts.
ExtractTokenOutcomeSchemeFirst(header) ==
    IF header = None \/ header[1] = <<>>
    THEN Raised("AuthenticationError", "Authorization header is required", NoInfo)
    ELSE LET parts == Split(header[1]) IN
         IF Len(parts) >= 1 /\ Lower(parts[1]) /= BearerScheme
         THEN Raised("AuthenticationError", "Invalid authentication scheme", Text(parts[1]))
         ELSE IF Len(parts) /= 2
         THEN Raised("AuthenticationError", "Malformed Authorization header", NoInfo)
         ELSE Returned(parts[2])

ExtractTokenOutcome(header) ==
    IF header = None \/ header[1] = <<>>
    THEN Raised("AuthenticationError", "Authorization header is required", NoInfo)
    ELSE LET parts == Split(header[1]) IN
         IF Len(parts) /= 2
         THEN Raised("AuthenticationError", "Malformed Authorization header", NoInfo)
         ELSE IF Lower(parts[1]) /= BearerScheme
         THEN Raised("AuthenticationError", "Invalid authentication scheme", Text(parts[1]))
         ELSE Returned(parts[2])

ExtractTokenLog(header) ==
    IF header = None \/ header[1] = <<>>
    THEN {}
    ELSE LET parts == Split(header[1]) IN
         IF Len(parts) /= 2
         THEN {}
         ELSE IF Lower(parts[1]) /= BearerScheme
         THEN {[key |-> "scheme", text |-> parts[1]]}
         ELSE {}

(***************************************************************************)
(* Inputs of the authenticator                                             *)
(***************************************************************************)
MaxHeaderPieces == 4

MaxTokenPieces == 3

sBearer == <<"B", "e", "a", "r", "e", "r">>

sBEARER == <<"b", "E", "A", "R", "E", "R">>

sBasic == <<"B", "a", "s", "i", "c">>

sAbcdx == <<"a", "b", "c", "d", "x">>

sAbcdefgh == <<"a", "b", "c", "d", "e", "f", "g", "h">>

HeaderPieces == {sBearer, sBEARER, sBasic, sAbcdx, <<" ">>, <<"\t">>}

TokenPieces == {<<"a", "b", "c", "d">>, <<"e", "f", "g", "h">>, <<"x">>, <<NonAscii>>}

\* Every concatenation of at most n pieces.
StringsOf(pieces, n) ==
    UNION {{Concat(ps) : ps \in [1..k -> pieces]} : k \in 0..n}

Headers == {None} \cup {Some(h) : h \in StringsOf(HeaderPieces, MaxHeaderPieces)}

Tokens == {None} \cup {Some(t) : t \in StringsOf(TokenPieces, MaxTokenPieces)}

\* Values of Settings.mcp_auth_token (any str, the empty one included).
Secrets == {<<>>, sAbcdefgh, sAbcdx, <<NonAscii, "x">>}

\* The calls a client of the authenticator can make.
AuthCalls ==
    {[op |-> "validate_token", arg |-> t] : t \in Tokens}
    \cup {[op |-> "extract_token_from_header", arg |-> h] : h \in Headers}

InitAuth ==
    /\ validToken \in Secrets
    /\ authCall \in AuthCalls
    /\ authOut = NoOutcome
    /\ authLog = {}
    /\ UseCaseIdle
    /\ clock = 0
    /\ GatewayIdle
    /\ ToolIdle
    /\ ClientIdle

\* await auth.validate_token(token)
ValidateToken ==
    /\ authCall.op = "validate_token"
    /\ authOut' = ValidateTokenOutcome(authCall.arg, validToken)
    /\ authLog' = ValidateTokenLog(authCall.arg, validToken)
    /\ UNCHANGED <<validToken, authCall, ucVars, gwVars, toolVars, clientVars>>

\* auth.extract_token_from_header(authorization_header)
ExtractTokenFromHeader ==
    /\ authCall.op = "extract_token_from_header"
    /\ authOut' = ExtractTokenOutcome(authCall.arg)
    /\ authLog' = ExtractTokenLog(authCall.arg)
    /\ UNCHANGED <<validToken, authCall, ucVars, gwVars, toolVars, clientVars>>

NextAuth ==
    \/ ValidateToken
    \/ ExtractTokenFromHeader

SpecAuth == InitAuth /\ [][NextAuth]_vars

(***************************************************************************)
(* Properties of the authenticator                                         *)
(***************************************************************************)
ExtractDone == authCall.op = "extract_token_from_header" /\ authOut.kind /= "none"

ValidateDone == authCall.op = "validate_token" /\ authOut.kind /= "none"

\* The positions at which a whitespace-separated token of s begins.
WordStarts(s) ==
    {i \in DOMAIN s : s[i] \notin Whitespace /\ (i = 1 \/ s[i - 1] \in Whitespace)}

\* The whitespace-free run of s that begins at position i.
WordAt(s, i) ==
    LET stop == {j \in i..Len(s) : s[j] \in Whitespace}
        last == IF stop = {} THEN Len(s)
                ELSE (CHOOSE j \in stop : \A k \in stop : j <= k) - 1
    IN SubSeq(s, i, last)

FirstWord(s) ==
    WordAt(s, CHOOSE i \in WordStarts(s) : \A k \in WordStarts(s) : i <= k)

LastWord(s) ==
    WordAt(s, CHOOSE i \in WordStarts(s) : \A k \in WordStarts(s) : i >= k)

\* C2: extract_token_from_header decides in order: an absent or empty header
\* fails with "Authorization header is required"; otherwise a header that
\* does not consist of exactly two whitespace-separated tokens fails as
\* malformed; otherwise a first token that is not "bearer" up to case fails
\* as an invalid scheme; otherwise the second token is returned verbatim.
C2_ExtractDecisionOrder ==
    ExtractDone =>
        LET h == authCall.arg IN
        IF h = None \/ h[1] = <<>>
        THEN authOut = Raised("AuthenticationError",
                              "Authorization header is required", NoInfo)
        ELSE IF Cardinality(WordStarts(h[1])) /= 2
        THEN authOut = Raised("AuthenticationError",
                              "Malformed Authorization header", NoInfo)
        ELSE IF Lower(FirstWord(h[1])) /= Lower(sBearer)
        THEN authOut = Raised("AuthenticationError",
                              "Invalid authentication scheme", Text(FirstWord(h[1])))
        ELSE authOut = Returned(LastWord(h[1]))

\* A header with a mixed-case scheme and surrounding whitespace was accepted
\* and its token returned.
C2_Witness ==
    /\ ExtractDone
    /\ authCall.arg = Some(<<" ">> \o sBEARER \o <<"\t">> \o sAbcdx)
    /\ authOut = Returned(sAbcdx)

\* C3: validate_token returns True iff the token is non-empty and equal to
\* the configured secret; an empty token fails with the authentication error
\* "Bearer token is required" and any other non-matching token with the
\* authentication error "Invalid bearer token".
C3_ValidateIffEqual ==
    ValidateDone =>
        LET t == authCall.arg IN
        IF t = None \/ t[1] = <<>>
        THEN authOut = Raised("AuthenticationError", "Bearer token is required", NoInfo)
        ELSE IF t[1] = validToken
        THEN authOut = Returned(PyTrue)
        ELSE authOut = Raised("AuthenticationError", "Invalid bearer token", NoInfo)

\* The token a call presents: the argument of validate_token, the second
\* part of a two-part header.
PresentedTokens ==
    IF authCall.arg = None THEN {}
    ELSE IF authCall.op = "validate_token" THEN {authCall.arg[1]}
    ELSE IF Cardinality(WordStarts(authCall.arg[1])) = 2
    THEN {LastWord(authCall.arg[1])}
    ELSE {}

\* C4: nothing the authenticator logs (the token_prefix of a failed
\* validate_token, the scheme of extract_token_from_header) equals the full
\* presented token or the full configured secret.
C4_LogsNeverFullToken ==
    \A e \in authLog : e.text \notin PresentedTokens /\ e.text /= validToken

\* The non-empty tokens that differ from the configured secret.
WrongTokens == {t \in Tokens \ {None} : t[1] /= <<>> /\ t[1] /= validToken}

\* C23: for any two non-empty presented tokens that both differ from the
\* configured secret, validate_token gives the caller the same outcome (the
\* same error kind and the same message), whatever prefix either shares
\* with the secret: the outcome of the call made is the outcome of every
\* other wrong token.
C23_WrongTokensAlike ==
    (ValidateDone /\ authCall.arg \in WrongTokens) =>
        \A t \in WrongTokens :
            LET other == ValidateTokenOutcome(t, validToken) IN
            /\ other.kind = authOut.kind
            /\ other.msg = authOut.msg

\* C30: for every string token, non-ASCII characters included,
\* validate_token either returns True or fails with AuthenticationError,
\* never with another kind of error.
C30_OnlyAuthenticationError ==
    ValidateDone => authOut.kind \in {"return", "AuthenticationError"}

(***************************************************************************)
(* Job and JobResult entities                                              *)
(***************************************************************************)
JobStatuses == {"submitted", "queued", "running", "completed", "failed", "cancelled"}

TerminalStatuses == {"completed", "failed", "cancelled"}

ResourceTypes == {"GPU", "CPU"}

MinInstanceCount == 1

MinPriority == -100

MaxPriority == 100

MaxProgress == 100

\* The Job constraints with priority left unconstrained.
JobValidAnyPriority(j) ==
    /\ j.status \in JobStatuses
    /\ j.instance_count >= MinInstanceCount
    /\ j.resource_type \in ResourceTypes
    /\ j.progress >= 0 /\ j.progress <= MaxProgress

\* The constraints pydantic enforces when a Job is constructed.
JobValid(j) ==
    /\ j.status \in JobStatuses
    /\ j.instance_count >= MinInstanceCount
    /\ j.resource_type \in ResourceTypes
    /\ j.priority >= MinPriority /\ j.priority <= MaxPriority
    /\ j.progress >= 0 /\ j.progress <= MaxProgress

\* The constraints pydantic enforces when a JobResult is constructed.
JobResultValid(r) ==
    /\ r.status \in TerminalStatuses
    /\ r.file_size_bytes >= 0
    /\ r.file_count >= 0

(***************************************************************************)
(* QarnotAdapter                                                           *)
(***************************************************************************)
RECURSIVE Digits(_)
\* str() of a non-negative clock reading.
Digits(n) ==
    LET d == <<"0", "1", "2", "3", "4", "5", "6", "7", "8", "9">> IN
    IF n < 10 THEN <<d[n + 1]>> ELSE Append(Digits(n \div 10), d[(n % 10) + 1])

\* f"job-{name}-{now.timestamp()}"
MakeJobId(name, now) == <<"j", "o", "b", "-">> \o name \o <<"-">> \o Digits(now)

\* tags or []
TagsOrEmpty(tags) == IF tags = None \/ tags[1] = <<>> THEN <<>> ELSE tags[1]

\* The Job(...) of submit_job with the priority argument left out, so that
\* the entity's default applies.
NewJobDefaultPriority(a, now) ==
    [job_id |-> MakeJobId(a.name, now),
     name |-> a.name,
     status |-> "submitted",
     instance_count |-> a.instance_count,
     resource_type |-> a.resource_type,
     priority |-> 0,
     tags |-> TagsOrEmpty(a.tags),
     config |-> a.config,
     created_at |-> now,
     started_at |-> None,
     updated_at |-> now,
     completed_at |-> None,
     progress |-> 0,
     error_message |-> None]

\* The Job(...) of submit_job with started_at set to the submission time.
NewJobStarted(a, now) ==
    [job_id |-> MakeJobId(a.name, now),
     name |-> a.name,
     status |-> "submitted",
     instance_count |-> a.instance_count,
     resource_type |-> a.resource_type,
     priority |-> a.priority,
     tags |-> TagsOrEmpty(a.tags),
     config |-> a.config,
     created_at |-> now,
     started_at |-> Some(now),
     updated_at |-> now,
     completed_at |-> None,
     progress |-> 0,
     error_message |-> None]

\* The Job(...) submit_job constructs.
NewJob(a, now) ==
    [job_id |-> MakeJobId(a.name, now),
     name |-> a.name,
     status |-> "submitted",
     instance_count |-> a.instance_count,
     resource_type |-> a.resource_type,
     priority |-> a.priority,
     tags |-> TagsOrEmpty(a.tags),
     config |-> a.config,
     created_at |-> now,
     started_at |-> None,
     updated_at |-> now,
     completed_at |-> None,
     progress |-> 0,
     error_message |-> None]

\* The exceptions the body of a try block can meet besides those the adapter
\* raises itself: "none" when it meets none.
Faults == {"none", "ConnectionError", "TimeoutError", "RuntimeError"}

\* The exception the body of a try block meets: its kind and its str().
Thrown(fault) == Raised(fault, "", Text(<<"details of ", fault>>))

\* raise kind(f"{msg}: {e}") in a handler that caught e: the text is str() of
\* the new exception, the cause the kind of e.
Wrapped(kind, msg, e) ==
    Raised(kind, msg, Info(<<>>, "", <<msg, ": ">> \o e.arg.text, e.kind))

\* QarnotAdapter.submit_job: a is [name, config, instance_count,
\* resource_type, priority, tags], now the reading of datetime.utcnow().
SubmitJobOutcome(a, now, fault) ==
    IF fault = "ConnectionError"
    THEN Wrapped("QarnotConnectionError", "Failed to connect to Qarnot API", Thrown(fault))
    ELSE IF fault = "TimeoutError"
    THEN Wrapped("QarnotTimeoutError", "Request timed out", Thrown(fault))
    ELSE IF fault /= "none"
    THEN Wrapped("QarnotAPIError", "Failed to submit job", Thrown(fault))
    ELSE IF ~JobValid(NewJob(a, now))
    THEN Wrapped("QarnotAPIError", "Failed to submit job", Thrown("ValidationError"))
    ELSE Returned(NewJob(a, now))

\* JobNotFoundError(job_id)
JobNotFound(id) ==
    Raised("JobNotFoundError", "Job not found",
           Info(id, "", <<"Job not found: ">> \o id, ""))

\* JobNotCompletedError(job_id, current_status)
JobNotCompleted(id, status) ==
    Raised("JobNotCompletedError", "Job has not completed yet",
           Info(id, status,
                <<"Job ">> \o id \o <<" has not completed yet. Current status: ", status>>,
                ""))

\* JobAlreadyCompletedError(job_id, current_status)
JobAlreadyCompleted(id, status) ==
    Raised("JobAlreadyCompletedError", "Job has already completed",
           Info(id, status,
                <<"Job ">> \o id \o <<" has already completed. Current status: ", status>>,
                ""))

\* get_job_status without its "except JobNotFoundError: raise" clause.
GetJobStatusOutcomeNoReraise(id, fault) ==
    IF fault /= "none"
    THEN Wrapped("QarnotAPIError", "Failed to get job status", Thrown(fault))
    ELSE Wrapped("QarnotAPIError", "Failed to get job status", JobNotFound(id))

\* QarnotAdapter.get_job_status: the body raises JobNotFoundError for every id.
GetJobStatusOutcome(id, fault) ==
    IF fault /= "none"
    THEN Wrapped("QarnotAPIError", "Failed to get job status", Thrown(fault))
    ELSE JobNotFound(id)

StorageUrl(kind, id) == <<"https://storage.qarnot.com/", kind, "/">> \o id

NewJobResult(id, status) ==
    [job_id |-> id,
     status |-> status,
     results_url |-> StorageUrl("results", id),
     file_size_bytes |-> 1048576,
     file_count |-> 5,
     download_url |-> Some(StorageUrl("download", id)),
     checksum |-> None]

\* QarnotAdapter.retrieve_results
RetrieveResultsOutcome(id, fault) ==
    LET got == GetJobStatusOutcome(id, fault) IN
    IF got.kind \in {"JobNotFoundError", "JobNotCompletedError"}
    THEN got
    ELSE IF got.kind /= "return"
    THEN Wrapped("QarnotAPIError", "Failed to retrieve results", got)
    ELSE IF got.value.status \notin TerminalStatuses
    THEN JobNotCompleted(id, got.value.status)
    ELSE IF ~JobResultValid(NewJobResult(id, got.value.status))
    THEN Wrapped("QarnotAPIError", "Failed to retrieve results", Thrown("ValidationError"))
    ELSE Returned(NewJobResult(id, got.value.status))

\* QarnotAdapter.cancel_job
CancelJobOutcome(id, fault) ==
    LET got == GetJobStatusOutcome(id, fault) IN
    IF got.kind \in {"JobNotFoundError", "JobAlreadyCompletedError"}
    THEN got
    ELSE IF got.kind /= "return"
    THEN Wrapped("QarnotAPIError", "Failed to cancel job", got)
    ELSE IF got.value.status \in TerminalStatuses
    THEN JobAlreadyCompleted(id, got.value.status)
    ELSE got

\* list_jobs without its try/except: what the body meets leaves as it is.
ListJobsOutcomeUncaught(limit, offset, status_filter, fault) ==
    IF fault /= "none"
    THEN Thrown(fault)
    ELSE Returned([jobs |-> <<>>, total_count |-> 0])

\* QarnotAdapter.list_jobs: the body returns no job and a total of 0.
ListJobsOutcome(limit, offset, status_filter, fault) ==
    IF fault /= "none"
    THEN Wrapped("QarnotAPIError", "Failed to list jobs", Thrown(fault))
    ELSE Returned([jobs |-> <<>>, total_count |-> 0])

(***************************************************************************)
(* Use cases: each takes its arguments and the outcome the QarnotPort call *)
(* it awaits produces, and gives the port calls it made and its outcome.   *)
(***************************************************************************)
PortCall(op, a) == [op |-> op, args |-> a]

\* SubmitJobUseCase.execute
SubmitJobExecute(a, reply) ==
    [calls |-> <<PortCall("submit_job", a)>>, out |-> reply]

\* GetJobStatusUseCase.execute
GetJobStatusExecute(a, reply) ==
    [calls |-> <<PortCall("get_job_status", a)>>, out |-> reply]

\* RetrieveResultsUseCase.execute
RetrieveResultsExecute(a, reply) ==
    [calls |-> <<PortCall("retrieve_results", a)>>, out |-> reply]

\* CancelJobUseCase.execute catching the gateway's failure and raising a
\* generic QarnotAPIError in its place.
CancelJobExecuteWrapping(a, reply) ==
    [calls |-> <<PortCall("cancel_job", a)>>,
     out |-> IF reply.kind = "return" THEN reply
             ELSE Wrapped("QarnotAPIError", "Failed to cancel job", reply)]

\* CancelJobUseCase.execute
CancelJobExecute(a, reply) ==
    [calls |-> <<PortCall("cancel_job", a)>>, out |-> reply]

\* next_offset advanced by the number of jobs returned instead of by limit.
NextOffsetByCount(offset, limit, jobs, total_count) ==
    IF offset + Len(jobs) < total_count THEN Some(offset + Len(jobs)) ELSE None

\* next_offset without the test for the last page.
NextOffsetUnconditional(offset, limit, jobs, total_count) == Some(offset + limit)

\* next_offset kept from going past total_count.
NextOffsetClamped(offset, limit, jobs, total_count) ==
    IF offset + Len(jobs) < total_count
    THEN Some(IF offset + limit > total_count THEN total_count ELSE offset + limit)
    ELSE None

\* The next_offset ListJobsUseCase.execute computes.
NextOffset(offset, limit, jobs, total_count) ==
    IF offset + Len(jobs) < total_count THEN Some(offset + limit) ELSE None

\* ListJobsUseCase.execute
ListJobsExecute(a, reply) ==
    [calls |-> <<PortCall("list_jobs", a)>>,
     out |-> IF reply.kind /= "return" THEN reply
             ELSE Returned([jobs |-> reply.value.jobs,
                            total_count |-> reply.value.total_count,
                            next_offset |-> NextOffset(a.offset, a.limit,
                                                       reply.value.jobs,
                                                       reply.value.total_count)])]

(***************************************************************************)
(* The use cases against any QarnotPort                                    *)
(***************************************************************************)
MaxLimit == 3

MaxOffset == 3

MaxPage == 2

MaxTotal == 4

SubmitArgs(name, count, rtype, prio, tags) ==
    [name |-> name, config |-> {<<"docker_image", "python:3.11">>},
     instance_count |-> count, resource_type |-> rtype, priority |-> prio,
     tags |-> tags]

\* Arguments of submit_job: valid ones, and ones the Job entity rejects.
SomeSubmitArgs ==
    {SubmitArgs(<<"a">>, 4, "CPU", 10, Some(<<"test">>)),
     SubmitArgs(<<"a">>, 1, "GPU", -100, None),
     SubmitArgs(<<"b">>, 4, "CPU", 100, Some(<<>>)),
     [SubmitArgs(<<"b", "-", "1">>, 2, "GPU", 0, Some(<<"x", "y">>)) EXCEPT !.config = {}],
     SubmitArgs(<<"a">>, 0, "CPU", 0, None),
     SubmitArgs(<<"a">>, 1, "TPU", 0, None),
     SubmitArgs(<<"a">>, 1, "CPU", 101, None),
     SubmitArgs(<<"a">>, 1, "CPU", -101, None)}

\* A Job a QarnotPort may hand back.
PortJob(name, now, status, progress) ==
    [NewJob(SubmitArgs(name, 1, "CPU", 0, None), now)
        EXCEPT !.status = status, !.progress = progress]

PortJobs ==
    {PortJob(<<"a">>, 0, "submitted", 0), PortJob(<<"b">>, 1, "running", 45),
     PortJob(<<"a">>, 1, "completed", 100), PortJob(<<"b">>, 0, "cancelled", 45)}

PortJobIds == {j.job_id : j \in PortJobs} \cup {<<"n", "o", "n", "e">>}

PortResults == {NewJobResult(j.job_id, j.status) : j \in {k \in PortJobs : k.status \in TerminalStatuses}}

\* The failures a QarnotPort call may raise, for a call about job id.
PortFailures(id) ==
    {Raised(k, "backend failure", Text(<<"backend failure">>)) :
        k \in {"QarnotAPIError", "QarnotConnectionError", "QarnotTimeoutError"}}
    \cup {JobNotFound(id), JobNotCompleted(id, "running"),
          JobAlreadyCompleted(id, "completed")}

OptionalTexts == {None, Some(<<"t", "e", "x", "t">>)}

\* The pages a QarnotPort may return from list_jobs.
Pages == UNION {[1..k -> {PortJob(<<"a">>, 0, "submitted", 0), PortJob(<<"b">>, 1, "running", 45)}] : k \in 0..MaxPage}

ListArgs(limit, offset, status_filter) ==
    [limit |-> limit, offset |-> offset, status_filter |-> status_filter]

InitUseCase ==
    /\ validToken = <<>>
    /\ AuthIdle
    /\ clock = 0
    /\ GatewayIdle
    /\ ToolIdle
    /\ ClientIdle
    /\ portCalls = <<>>
    /\ ucOut = NoOutcome
    /\ \/ /\ ucCall \in {[uc |-> "submit_job", args |-> a] : a \in SomeSubmitArgs}
          /\ portReply \in {Returned(j) : j \in PortJobs} \cup PortFailures(<<>>)
       \/ \E id \in PortJobIds :
          /\ ucCall = [uc |-> "get_job_status", args |-> [job_id |-> id]]
          /\ portReply \in {Returned(j) : j \in PortJobs} \cup PortFailures(id)
       \/ \E id \in PortJobIds, path \in OptionalTexts :
          /\ ucCall = [uc |-> "retrieve_results",
                       args |-> [job_id |-> id, output_path |-> path]]
          /\ portReply \in {Returned(r) : r \in PortResults} \cup PortFailures(id)
       \/ \E id \in PortJobIds, reason \in OptionalTexts :
          /\ ucCall = [uc |-> "cancel_job", args |-> [job_id |-> id, reason |-> reason]]
          /\ portReply \in {Returned(j) : j \in PortJobs} \cup PortFailures(id)
       \/ \E limit \in 1..MaxLimit, offset \in 0..MaxOffset,
             f \in {None, Some("running")} :
          /\ ucCall = [uc |-> "list_jobs", args |-> ListArgs(limit, offset, f)]
          /\ portReply \in {Returned([jobs |-> p, total_count |-> n]) :
                               p \in Pages, n \in 0..MaxTotal}
                           \cup PortFailures(<<>>)

UseCaseDoes(result) ==
    /\ portCalls' = result.calls
    /\ ucOut' = result.out
    /\ UNCHANGED <<ucCall, portReply, authVars, gwVars, toolVars, clientVars>>

ExecuteSubmitJob ==
    /\ ucCall.uc = "submit_job"
    /\ UseCaseDoes(SubmitJobExecute(ucCall.args, portReply))

ExecuteGetJobStatus ==
    /\ ucCall.uc = "get_job_status"
    /\ UseCaseDoes(GetJobStatusExecute(ucCall.args, portReply))

ExecuteRetrieveResults ==
    /\ ucCall.uc = "retrieve_results"
    /\ UseCaseDoes(RetrieveResultsExecute(ucCall.args, portReply))

ExecuteCancelJob ==
    /\ ucCall.uc = "cancel_job"
    /\ UseCaseDoes(CancelJobExecute(ucCall.args, portReply))

ExecuteListJobs ==
    /\ ucCall.uc = "list_jobs"
    /\ UseCaseDoes(ListJobsExecute(ucCall.args, portReply))

NextUseCase ==
    \/ ExecuteSubmitJob
    \/ ExecuteGetJobStatus
    \/ ExecuteRetrieveResults
    \/ ExecuteCancelJob
    \/ ExecuteListJobs

SpecUseCase == InitUseCase /\ [][NextUseCase]_vars

UseCaseDone == ucOut.kind /= "none"

\* C5: ListJobsUseCase.execute returns next_offset = offset + limit when
\* offset + (number of jobs the gateway returned) < total_count and None
\* otherwise, and returns exactly the gateway's jobs and total_count.
C5_NextOffsetLaw ==
    (UseCaseDone /\ ucCall.uc = "list_jobs" /\ portReply.kind = "return") =>
        /\ ucOut.kind = "return"
        /\ ucOut.value.jobs = portReply.value.jobs
        /\ ucOut.value.total_count = portReply.value.total_count
        /\ (ucCall.args.offset + Len(portReply.value.jobs) < portReply.value.total_count
              => ucOut.value.next_offset = Some(ucCall.args.offset + ucCall.args.limit))
        /\ (ucCall.args.offset + Len(portReply.value.jobs) >= portReply.value.total_count
              => ucOut.value.next_offset = None)

\* A page shorter than limit that is not the last one: next_offset is still
\* offset + limit.
C5_Witness ==
    /\ UseCaseDone
    /\ ucCall.uc = "list_jobs"
    /\ ucCall.args.offset = 1
    /\ ucCall.args.limit = 3
    /\ portReply.kind = "return"
    /\ Len(portReply.value.jobs) = 1
    /\ portReply.value.total_count = 4
    /\ ucOut.value.next_offset = Some(4)

\* ListJobsUseCase.execute returned a next_offset that is not None.
NextOffsetGiven ==
    /\ UseCaseDone
    /\ ucCall.uc = "list_jobs"
    /\ ucOut.kind = "return"
    /\ ucOut.value.next_offset /= None

\* C29, as stated: whenever execute returns a next_offset that is not None,
\* for any page the gateway may return, next_offset is at most total_count
\* and equals offset plus the number of jobs returned.
C29_NextOffsetSkipsNothing ==
    NextOffsetGiven =>
        /\ ucOut.value.next_offset[1] <= ucOut.value.total_count
        /\ ucOut.value.next_offset[1] = ucCall.args.offset + Len(ucOut.value.jobs)

\* C29, amended: whenever execute returns a next_offset that is not None it
\* is offset + limit; when the page holds exactly limit jobs that is offset
\* plus the number of jobs returned and is below total_count.
C29_NextOffsetByLimit ==
    NextOffsetGiven =>
        /\ ucOut.value.next_offset[1] = ucCall.args.offset + ucCall.args.limit
        /\ Len(ucOut.value.jobs) = ucCall.args.limit =>
              /\ ucOut.value.next_offset[1]
                    = ucCall.args.offset + Len(ucOut.value.jobs)
              /\ ucOut.value.next_offset[1] < ucOut.value.total_count

\* A page of one job where three were asked for and two exist: next_offset
\* is 3, past total_count.
C29_Witness ==
    /\ NextOffsetGiven
    /\ ucCall.args.offset = 0
    /\ ucCall.args.limit = 3
    /\ Len(ucOut.value.jobs) = 1
    /\ ucOut.value.total_count = 2
    /\ ucOut.value.next_offset = Some(3)

\* The port operation each use case is for.
MatchingOp == ucCall.uc

SetAttrUnfrozen(obj, field, value) ==
    [obj |-> [obj EXCEPT ![field] = value], out |-> Returned(None)]

\* obj.field = value on a model whose Config has frozen = True: pydantic
\* raises and leaves the instance as it was.
SetAttr(obj, field, value) ==
    [obj |-> obj,
     out |-> Raised("ValidationError", "Instance is frozen",
                    Text(<<"Instance is frozen">>))]

\* The Jobs and JobResults the program hands out.
Entities ==
    {[type |-> "Job", obj |-> j] :
        j \in PortJobs \cup {NewJob(a, 0) : a \in {b \in SomeSubmitArgs : JobValid(NewJob(b, 0))}}}
    \cup {[type |-> "JobResult", obj |-> r] : r \in PortResults}

\* Assignments that would pass the field's own validation.
AssignCalls(type, field) ==
    {[field |-> field, value |-> v] :
        v \in IF field = "status"
              THEN (IF type = "Job" THEN JobStatuses ELSE TerminalStatuses)
              ELSE IF field \in {"error_message", "checksum"}
              THEN {None, Some(<<"x">>)}
              ELSE IF field = "progress" THEN {0, MaxProgress} ELSE {0, 5}}

AssignedFields(type) ==
    IF type = "Job" THEN {"status", "progress", "error_message"}
    ELSE {"status", "file_count", "checksum"}

InitEntity ==
    /\ validToken = <<>>
    /\ AuthIdle
    /\ UseCaseIdle
    /\ clock = 0
    /\ GatewayIdle
    /\ ToolIdle
    /\ PagerIdle
    /\ entity \in Entities
    /\ \E field \in AssignedFields(entity.type) :
          assignCall \in AssignCalls(entity.type, field)
    /\ assignOut = NoOutcome

\* The caller assigns to a field of the entity it holds.
AssignField ==
    /\ assignOut = NoOutcome
    /\ LET result == SetAttr(entity.obj, assignCall.field, assignCall.value)
       IN /\ entity' = [entity EXCEPT !.obj = result.obj]
          /\ assignOut' = result.out
    /\ UNCHANGED <<authVars, ucVars, gwVars, toolVars, pager, assignCall>>

\* The answer of a QarnotPort that cancels job j: a Job with status cancelled,
\* or JobAlreadyCompletedError for a job that is over.
PortCancel(j) ==
    IF j.status \in TerminalStatuses
    THEN JobAlreadyCompleted(j.job_id, j.status)
    ELSE Returned([j EXCEPT !.status = "cancelled"])

\* CancelJobUseCase.execute for the Job the caller holds.
CancelHeldJob ==
    /\ entity.type = "Job"
    /\ ucOut = NoOutcome
    /\ LET a == [job_id |-> entity.obj.job_id, reason |-> None]
           reply == PortCancel(entity.obj)
           result == CancelJobExecute(a, reply)
       IN /\ ucCall' = [uc |-> "cancel_job", args |-> a]
          /\ portReply' = reply
          /\ portCalls' = result.calls
          /\ ucOut' = result.out
    /\ UNCHANGED <<authVars, gwVars, toolVars, clientVars>>

NextEntity ==
    \/ AssignField
    \/ CancelHeldJob

SpecEntity == InitEntity /\ [][NextEntity]_vars

AssignDone == assignOut.kind /= "none"

MaxPagerLimit == 4

MaxBackendJobs == 9

\* The client gives up after this many calls.
PagerCallCap == MaxBackendJobs + 2

\* The n jobs the backend holds, in its order.
BackendJobs(n) == [i \in 1..n |-> PortJob(Digits(i), 0, "queued", 0)]

\* The jobs at positions offset .. min(offset + limit, n) - 1, counted from 0.
BackendPage(n, offset, limit) ==
    SubSeq(BackendJobs(n), offset + 1,
           IF offset + limit < n THEN offset + limit ELSE n)

InitPaging ==
    /\ validToken = <<>>
    /\ AuthIdle
    /\ UseCaseIdle
    /\ clock = 0
    /\ GatewayIdle
    /\ ToolIdle
    /\ EntityIdle
    /\ \E limit \in 1..MaxPagerLimit, n \in 0..MaxBackendJobs :
          pager = [limit |-> limit, total |-> n, offset |-> Some(0),
                   received |-> <<>>, calls |-> 0]

\* The client calls execute(limit, offset) and keeps the page and the
\* next_offset it is given.
FetchPage ==
    /\ pager.offset /= None
    /\ pager.calls < PagerCallCap
    /\ LET a == ListArgs(pager.limit, pager.offset[1], None)
           reply == Returned([jobs |-> BackendPage(pager.total, a.offset, a.limit),
                              total_count |-> pager.total])
           result == ListJobsExecute(a, reply)
       IN /\ ucCall' = [uc |-> "list_jobs", args |-> a]
          /\ portReply' = reply
          /\ portCalls' = result.calls
          /\ ucOut' = result.out
          /\ pager' = [pager EXCEPT !.offset = result.out.value.next_offset,
                                    !.received = @ \o result.out.value.jobs,
                                    !.calls = @ + 1]
    /\ UNCHANGED <<authVars, gwVars, toolVars, entity, assignCall, assignOut>>

NextPaging == FetchPage

\* The client keeps calling while it has a next_offset.
SpecPaging == InitPaging /\ [][NextPaging]_vars /\ WF_vars(FetchPage)

\* The client was told there is no further page.
PagerDone == pager.calls > 0 /\ pager.offset = None

\* C28: over a backend holding a fixed list of N jobs that answers each call
\* with the jobs at offset .. min(offset + limit, N) - 1 and total_count N,
\* a client that starts at offset 0 and follows next_offset until it is None
\* stops after finitely many calls and has received each of the N jobs
\* exactly once.
C28_PagingTerminates ==
    /\ <>PagerDone
    /\ [](PagerDone => /\ pager.received = BackendJobs(pager.total)
                       /\ pager.calls <= pager.total + 1)

\* Nine jobs fetched four at a time: done after three calls.
C28_Witness ==
    /\ PagerDone
    /\ pager.total = 9
    /\ pager.limit = 4
    /\ pager.calls = 3
    /\ Len(pager.received) = 9

(***************************************************************************)
(* The QarnotAdapter called directly                                       *)
(***************************************************************************)
MaxClock == 1

MaxSubmits == 2

UnknownJobId == <<"n", "o", "n", "e">>

\* The job ids a caller may ask about: those it was given, and another one.
AskableIds == {issuedIds[i] : i \in DOMAIN issuedIds} \cup {UnknownJobId}

InitGateway ==
    /\ validToken = <<>>
    /\ AuthIdle
    /\ UseCaseIdle
    /\ ToolIdle
    /\ ClientIdle
    /\ clock = 0
    /\ GatewayIdle

\* Time passes between two readings of datetime.utcnow().
Tick ==
    /\ clock < MaxClock
    /\ clock' = clock + 1
    /\ UNCHANGED <<gwCall, gwOut, issuedIds, apiToken, apiUrl, authVars, ucVars, toolVars,
                   clientVars>>

GatewayDoes(op, a, fault, out) ==
    /\ gwCall' = [op |-> op, args |-> a, fault |-> fault]
    /\ gwOut' = out
    /\ UNCHANGED <<clock, apiToken, apiUrl, authVars, ucVars, toolVars, clientVars>>

\* await adapter.submit_job(...)
GwSubmitJob ==
    /\ Len(issuedIds) < MaxSubmits
    /\ \E a \in SomeSubmitArgs, fault \in Faults :
          LET out == SubmitJobOutcome(a, clock, fault) IN
          /\ GatewayDoes("submit_job", a, fault, out)
          /\ issuedIds' = IF out.kind = "return"
                          THEN Append(issuedIds, out.value.job_id)
                          ELSE issuedIds

\* await adapter.get_job_status(job_id)
GwGetJobStatus ==
    \E id \in AskableIds, fault \in Faults :
        /\ GatewayDoes("get_job_status", [job_id |-> id], fault,
                       GetJobStatusOutcome(id, fault))
        /\ UNCHANGED issuedIds

\* await adapter.retrieve_results(job_id, output_path)
GwRetrieveResults ==
    \E id \in AskableIds, path \in OptionalTexts, fault \in Faults :
        /\ GatewayDoes("retrieve_results", [job_id |-> id, output_path |-> path],
                       fault, RetrieveResultsOutcome(id, fault))
        /\ UNCHANGED issuedIds

\* await adapter.cancel_job(job_id, reason)
GwCancelJob ==
    \E id \in AskableIds, reason \in OptionalTexts, fault \in Faults :
        /\ GatewayDoes("cancel_job", [job_id |-> id, reason |-> reason],
                       fault, CancelJobOutcome(id, fault))
        /\ UNCHANGED issuedIds

\* await adapter.list_jobs(limit, offset, status_filter)
GwListJobs ==
    \E limit \in {1, MaxLimit}, offset \in {0, 1},
       f \in {None, Some("running")}, fault \in Faults :
        /\ GatewayDoes("list_jobs", ListArgs(limit, offset, f), fault,
                       ListJobsOutcome(limit, offset, f, fault))
        /\ UNCHANGED issuedIds

NextGateway ==
    \/ Tick
    \/ GwSubmitJob
    \/ GwGetJobStatus
    \/ GwRetrieveResults
    \/ GwCancelJob
    \/ GwListJobs

SpecGateway == InitGateway /\ [][NextGateway]_vars

SubmitReturned == gwCall.op = "submit_job" /\ gwOut.kind = "return"

\* C9: every Job a successful gateway submit returns has status
\* "submitted", progress 0, no started_at, completed_at or error_message,
\* created_at equal to updated_at, a job_id beginning with "job-", and name,
\* instance_count, resource_type, priority, tags and config equal to the
\* submitted arguments, tags defaulting to the empty list.
C9_SubmittedJobShape ==
    SubmitReturned =>
        LET j == gwOut.value
            a == gwCall.args
        IN /\ j.status = "submitted"
           /\ j.progress = 0
           /\ j.started_at = None
           /\ j.completed_at = None
           /\ j.error_message = None
           /\ j.created_at = j.updated_at
           /\ Len(j.job_id) >= 4
           /\ SubSeq(j.job_id, 1, 4) = <<"j", "o", "b", "-">>
           /\ j.name = a.name
           /\ j.instance_count = a.instance_count
           /\ j.resource_type = a.resource_type
           /\ j.priority = a.priority
           /\ j.tags = (IF a.tags = None THEN <<>> ELSE a.tags[1])
           /\ j.config = a.config

\* A submit without tags and with a priority other than the default
\* returned a Job.
C9_Witness ==
    /\ SubmitReturned
    /\ gwCall.args.tags = None
    /\ gwCall.args.priority = -100
    /\ gwOut.value.tags = <<>>
    /\ gwOut.value.priority = -100

\* C10: across any sequence of successful submit calls, two submits with the
\* same name at the same clock reading included, no two returned Jobs have
\* the same job_id.
C10_JobIdsUnique ==
    \A i, k \in DOMAIN issuedIds : i /= k => issuedIds[i] /= issuedIds[k]

\* The failures of the backend error family: QarnotAPIError and its subtypes.
BackendErrors ==
    {"QarnotAPIError", "QarnotConnectionError", "QarnotTimeoutError",
     "JobNotFoundError", "JobNotCompletedError", "JobAlreadyCompletedError"}

GatewayFailed == gwOut.kind \notin {"none", "return"}

SubmitArgsOutOfRange(a) ==
    \/ a.instance_count < 1
    \/ a.resource_type \notin {"CPU", "GPU"}
    \/ a.priority < -100
    \/ a.priority > 100

KnownJobIds == {issuedIds[i] : i \in DOMAIN issuedIds}

\* The gateway operations that are about one job.
JobOps == {"get_job_status", "retrieve_results", "cancel_job"}

\* The last call was op on a job, and its try body met no other failure.
AskedAbout(op) == gwCall.op = op /\ gwCall.fault = "none"

\* C12: get_job_status with a job_id unknown to the backend fails with
\* JobNotFoundError whose job_id is the requested id, not wrapped in a
\* generic backend error; retrieve_results and cancel_job fail the same way.
C12_UnknownJobNotFound ==
    \A op \in JobOps :
        (AskedAbout(op) /\ gwCall.args.job_id \notin KnownJobIds) =>
            gwOut = JobNotFound(gwCall.args.job_id)

\* While another job is known, a cancel of an unknown id failed with
\* JobNotFoundError naming that id.
C12_Witness ==
    /\ AskedAbout("cancel_job")
    /\ KnownJobIds /= {}
    /\ gwCall.args.job_id = UnknownJobId
    /\ gwOut.kind = "JobNotFoundError"
    /\ gwOut.arg.job_id = UnknownJobId

\* Every Job the gateway has returned came from submit_job with status
\* "submitted", and no operation has returned it in another status since:
\* the known jobs are all in a non-terminal status.
NonTerminalStatuses == JobStatuses \ TerminalStatuses

\* C13: retrieve_results on a known job whose current status is submitted,
\* queued or running returns no JobResult and fails with JobNotCompletedError
\* carrying the job_id and that current status.
C13_RetrieveBeforeCompletion ==
    (AskedAbout("retrieve_results") /\ gwCall.args.job_id \in KnownJobIds) =>
        /\ gwOut.kind = "JobNotCompletedError"
        /\ gwOut.arg.job_id = gwCall.args.job_id
        /\ gwOut.arg.current_status \in NonTerminalStatuses

\* C15: cancel_job on a known job whose current status is submitted, queued
\* or running succeeds and returns a Job with the same job_id and status
\* "cancelled".
C15_CancelReturnsCancelled ==
    (AskedAbout("cancel_job") /\ gwCall.args.job_id \in KnownJobIds) =>
        /\ gwOut.kind = "return"
        /\ gwOut.value.job_id = gwCall.args.job_id
        /\ gwOut.value.status = "cancelled"

GatewayOps == {"submit_job", "list_jobs"} \cup JobOps

\* C16: for each of the five gateway operations, a connection failure during
\* the operation surfaces as QarnotConnectionError and a timeout as
\* QarnotTimeoutError, also when it occurs in the status lookup inside
\* retrieve_results and cancel_job.
C16_TransportFailuresClassified ==
    \A op \in GatewayOps :
        gwCall.op = op =>
            /\ gwCall.fault = "ConnectionError" => gwOut.kind = "QarnotConnectionError"
            /\ gwCall.fault = "TimeoutError" => gwOut.kind = "QarnotTimeoutError"

\* The text t has the text p in it.
Includes(t, p) ==
    \E i \in 0..(Len(t) - Len(p)) : SubSeq(t, i + 1, i + Len(p)) = p

\* The failure raised inside the last gateway call by something other than
\* the adapter itself: a failure its try body met, or the entity's
\* validation error for out-of-range submit arguments; "none" without one.
ForeignFailure ==
    IF gwCall.fault /= "none" THEN gwCall.fault
    ELSE IF gwCall.op = "submit_job" /\ SubmitArgsOutOfRange(gwCall.args)
    THEN "ValidationError"
    ELSE "none"

MatchingSubmitted(status_filter) ==
    IF status_filter = None \/ status_filter = Some("submitted")
    THEN Len(issuedIds)
    ELSE 0

\* C18: list_jobs returns at most limit jobs, every returned job has the
\* status of status_filter when one is given, and total_count is the number
\* of jobs known to the backend that match the filter, whatever limit and
\* offset are: after n successful submits an unfiltered list reports n.
C18_ListTotals ==
    (gwCall.op = "list_jobs" /\ gwOut.kind = "return") =>
        LET page == gwOut.value.jobs
            a == gwCall.args
        IN /\ Len(page) <= a.limit
           /\ a.status_filter /= None =>
                 \A i \in DOMAIN page : page[i].status = a.status_filter[1]
           /\ gwOut.value.total_count = MatchingSubmitted(a.status_filter)

\* C25: after submit_job has returned a Job with job_id j, a later
\* get_job_status(j) succeeds and returns a Job with job_id j, and
\* cancel_job(j) and retrieve_results(j) do not fail with JobNotFoundError.
C25_SubmittedJobIsFound ==
    \A op \in JobOps :
        (AskedAbout(op) /\ gwCall.args.job_id \in KnownJobIds) =>
            /\ gwOut.kind /= "JobNotFoundError"
            /\ op = "get_job_status" =>
                  /\ gwOut.kind = "return"
                  /\ gwOut.value.job_id = gwCall.args.job_id

\* The last gateway call returned a Job.
JobReturned ==
    /\ gwCall.op \in {"submit_job", "get_job_status", "cancel_job"}
    /\ gwOut.kind = "return"

\* C27: every Job a gateway operation constructs or returns has started_at
\* set only if its status is running or terminal, completed_at set only if
\* its status is terminal, and error_message set only if its status is
\* failed.
C27_TimestampsFollowStatus ==
    JobReturned =>
        LET j == gwOut.value IN
        /\ j.started_at /= None => j.status \in {"running"} \cup TerminalStatuses
        /\ j.completed_at /= None => j.status \in TerminalStatuses
        /\ j.error_message /= None => j.status = "failed"

\* A second submit returned a Job in status "submitted" with none of the
\* three fields set.
C27_Witness ==
    /\ JobReturned
    /\ Len(issuedIds) = 2
    /\ gwOut.value.status = "submitted"
    /\ gwOut.value.started_at = None
    /\ gwOut.value.completed_at = None
    /\ gwOut.value.error_message = None

(***************************************************************************)
(* Requests arriving in any order at one authenticator, one adapter and    *)
(* the use cases over it.  No coroutine of the program suspends before it  *)
(* is done, so a request is one step.                                      *)
(***************************************************************************)
\* self._valid_token after validate_token(token) had the method kept the
\* token it was shown.
ValidTokenRemembered(token, secret) == IF token = None THEN secret ELSE token[1]

\* self._valid_token after validate_token(token): the method assigns nothing.
ValidTokenAfter(token, secret) == secret

\* Settings.mcp_auth_token of the running server.
ConfiguredSecret == sAbcdx

ConcurrentTokens == {None, Some(sAbcdx), Some(<<"x">>), Some(sAbcdefgh)}

ConcurrentHeaders == {None, Some(sBearer \o <<" ">> \o sAbcdx), Some(sBasic \o <<" ">> \o sAbcdx)}

ConcurrentSubmitArgs == SubmitArgs(<<"a">>, 4, "CPU", 10, Some(<<"test">>))

InitConcurrent ==
    /\ validToken = ConfiguredSecret
    /\ AuthIdle
    /\ UseCaseIdle
    /\ clock = 0
    /\ GatewayIdle
    /\ ToolIdle
    /\ ClientIdle

\* A request runs await auth.validate_token(token).
RequestValidateToken ==
    \E token \in ConcurrentTokens :
        /\ authCall' = [op |-> "validate_token", arg |-> token]
        /\ authOut' = ValidateTokenOutcome(token, validToken)
        /\ authLog' = ValidateTokenLog(token, validToken)
        /\ validToken' = ValidTokenAfter(token, validToken)
        /\ UNCHANGED <<ucVars, gwVars, toolVars, clientVars>>

\* A request runs auth.extract_token_from_header(header).
RequestExtractToken ==
    \E header \in ConcurrentHeaders :
        /\ authCall' = [op |-> "extract_token_from_header", arg |-> header]
        /\ authOut' = ExtractTokenOutcome(header)
        /\ authLog' = ExtractTokenLog(header)
        /\ UNCHANGED <<validToken, ucVars, gwVars, toolVars, clientVars>>

\* A request runs await adapter.submit_job(...).
RequestSubmitJob ==
    /\ Len(issuedIds) < MaxSubmits
    /\ LET out == SubmitJobOutcome(ConcurrentSubmitArgs, clock, "none") IN
       /\ GatewayDoes("submit_job", ConcurrentSubmitArgs, "none", out)
       /\ issuedIds' = Append(issuedIds, out.value.job_id)

\* A request runs GetJobStatusUseCase.execute over the adapter.
RequestGetJobStatus ==
    \E id \in AskableIds :
        LET a == [job_id |-> id]
            reply == GetJobStatusOutcome(id, "none")
            result == GetJobStatusExecute(a, reply)
        IN /\ ucCall' = [uc |-> "get_job_status", args |-> a]
           /\ portReply' = reply
           /\ portCalls' = result.calls
           /\ ucOut' = result.out
           /\ UNCHANGED <<authVars, gwVars, toolVars, clientVars>>

NextConcurrent ==
    \/ Tick
    \/ RequestValidateToken
    \/ RequestExtractToken
    \/ RequestSubmitJob
    \/ RequestGetJobStatus

SpecConcurrent == InitConcurrent /\ [][NextConcurrent]_vars

\* C24: no request writes the configured secret, the API token or the API
\* URL, and whatever requests ran before it, in whatever order, each request
\* gets the result it gets when it runs alone: validate_token the verdict
\* against the configured secret, submit_job the Job of its own arguments
\* and time, get_job_status the answer for its own job id.
C24_RequestsDoNotInterfere ==
    /\ [][/\ validToken' = validToken
          /\ apiToken' = apiToken
          /\ apiUrl' = apiUrl]_vars
    /\ [](validToken = ConfiguredSecret /\ apiToken = QarnotApiToken /\ apiUrl = QarnotApiUrl)
    /\ [](ValidateDone => authOut = ValidateTokenOutcome(authCall.arg, ConfiguredSecret))
    /\ [](SubmitReturned => \E t \in 0..clock : gwOut.value = NewJob(gwCall.args, t))
    /\ [](UseCaseDone => ucOut = JobNotFound(ucCall.args.job_id))

\* The right token was accepted after two submits and a status request.
C24_Witness ==
    /\ ValidateDone
    /\ authCall.arg = Some(ConfiguredSecret)
    /\ authOut = Returned(PyTrue)
    /\ SubmitReturned
    /\ Len(issuedIds) = 2
    /\ UseCaseDone
    /\ ucCall.args.job_id = issuedIds[1]
    /\ clock = 1

(***************************************************************************)
(* Input schemas: a request is the dict a tool receives, each key an       *)
(* Optional (None: the key is absent).                                     *)
(***************************************************************************)
MaxJobNameLen == 100

MaxInstanceCount == 10000

MaxReasonLen == 500

MaxListLimit == 100

DefaultListLimit == 10

\* SubmitJobRequest's instance_count bounded by le=1000.
InstanceCountOkTooLow(n) == n >= MinInstanceCount /\ n <= 1000

\* SubmitJobRequest.instance_count: ge=1, le=10000
InstanceCountOk(n) == n >= MinInstanceCount /\ n <= MaxInstanceCount

\* SubmitJobRequest(**request) validates.
SubmitJobRequestValid(r) ==
    /\ r.job_name /= None
    /\ Len(r.job_name[1]) >= 1 /\ Len(r.job_name[1]) <= MaxJobNameLen
    /\ r.job_config /= None
    /\ r.instance_count /= None
    /\ InstanceCountOk(r.instance_count[1])
    /\ r.resource_type /= None
    /\ r.resource_type[1] \in ResourceTypes
    /\ r.priority /= None =>
          (r.priority[1] >= MinPriority /\ r.priority[1] <= MaxPriority)

\* The arguments the submit_job tool hands to the use case.
SubmitJobValidated(r) ==
    [name |-> r.job_name[1],
     config |-> r.job_config[1],
     instance_count |-> r.instance_count[1],
     resource_type |-> r.resource_type[1],
     priority |-> IF r.priority = None THEN 0 ELSE r.priority[1],
     tags |-> Some(IF r.tags = None THEN <<>> ELSE r.tags[1])]

\* GetJobStatusRequest(**request) validates.
GetJobStatusRequestValid(r) == r.job_id /= None /\ Len(r.job_id[1]) >= 1

\* RetrieveResultsRequest(**request) validates.
RetrieveResultsRequestValid(r) == r.job_id /= None /\ Len(r.job_id[1]) >= 1

\* CancelJobRequest(**request) validates.
CancelJobRequestValid(r) ==
    /\ r.job_id /= None /\ Len(r.job_id[1]) >= 1
    /\ r.reason /= None => Len(r.reason[1]) <= MaxReasonLen

\* The status pattern of ListJobsRequest widened to every job status.
ListFilterStatusesAll == JobStatuses

\* ListJobsRequest.status_filter: ^(queued|running|completed|failed|cancelled)$
ListFilterStatuses == {"queued", "running", "completed", "failed", "cancelled"}

\* ListJobsRequest(**request) validates.
ListJobsRequestValid(r) ==
    /\ r.limit /= None => (r.limit[1] >= 1 /\ r.limit[1] <= MaxListLimit)
    /\ r.offset /= None => r.offset[1] >= 0
    /\ r.status_filter /= None => r.status_filter[1] \in ListFilterStatuses

\* The arguments the list_jobs tool hands to the use case.
ListJobsValidated(r) ==
    ListArgs(IF r.limit = None THEN DefaultListLimit ELSE r.limit[1],
             IF r.offset = None THEN 0 ELSE r.offset[1],
             r.status_filter)

(***************************************************************************)
(* MCP tool handlers, wired as create_app wires them: the use cases over   *)
(* the QarnotAdapter.                                                      *)
(***************************************************************************)
Ev(layer, op, a) == [layer |-> layer, op |-> op, args |-> a]

RECURSIVE PortEvents(_)
PortEvents(calls) ==
    IF calls = <<>> THEN <<>>
    ELSE <<Ev("gateway", Head(calls).op, Head(calls).args)>> \o PortEvents(Tail(calls))

InvalidInput(schema) == Raised("pydantic.ValidationError", schema, NoInfo)

\* What a handler does once its input r is valid: the use case runs on a
\* (result uc), and its value is mapped to the output schema (dumped).
Handled(schema, r, ucName, a, uc, dumped) ==
    [events |-> <<Ev("schema", schema, r), Ev("use_case", ucName, a)>>
                \o PortEvents(uc.calls),
     out |-> IF uc.out.kind = "return" THEN Returned(dumped) ELSE uc.out]

Rejected(schema, r) ==
    [events |-> <<Ev("schema", schema, r)>>, out |-> InvalidInput(schema)]

\* MCPAdapter tool submit_job
SubmitJobTool(r, now, fault) ==
    IF ~SubmitJobRequestValid(r) THEN Rejected("SubmitJobRequest", r)
    ELSE LET a == SubmitJobValidated(r)
             uc == SubmitJobExecute(a, SubmitJobOutcome(a, now, fault))
             job == uc.out.value
         IN Handled("SubmitJobRequest", r, "submit_job", a, uc,
                    IF uc.out.kind /= "return" THEN <<>>
                    ELSE [job_id |-> job.job_id, status |-> job.status,
                          name |-> job.name, created_at |-> job.created_at,
                          instance_count |-> job.instance_count,
                          resource_type |-> job.resource_type])

\* MCPAdapter tool get_job_status
GetJobStatusTool(r, fault) ==
    IF ~GetJobStatusRequestValid(r) THEN Rejected("GetJobStatusRequest", r)
    ELSE LET a == [job_id |-> r.job_id[1]]
             uc == GetJobStatusExecute(a, GetJobStatusOutcome(a.job_id, fault))
             job == uc.out.value
         IN Handled("GetJobStatusRequest", r, "get_job_status", a, uc,
                    IF uc.out.kind /= "return" THEN <<>>
                    ELSE [job_id |-> job.job_id, status |-> job.status,
                          progress |-> job.progress, started_at |-> job.started_at,
                          updated_at |-> job.updated_at,
                          error_message |-> job.error_message])

\* MCPAdapter tool retrieve_job_results
RetrieveJobResultsTool(r, fault) ==
    IF ~RetrieveResultsRequestValid(r) THEN Rejected("RetrieveResultsRequest", r)
    ELSE LET a == [job_id |-> r.job_id[1], output_path |-> r.output_path]
             uc == RetrieveResultsExecute(a, RetrieveResultsOutcome(a.job_id, fault))
             res == uc.out.value
         IN Handled("RetrieveResultsRequest", r, "retrieve_results", a, uc,
                    IF uc.out.kind /= "return" THEN <<>>
                    ELSE [job_id |-> res.job_id, status |-> res.status,
                          results_url |-> res.results_url,
                          file_size_bytes |-> res.file_size_bytes,
                          file_count |-> res.file_count,
                          download_url |-> res.download_url])

\* MCPAdapter tool cancel_job
CancelJobTool(r, fault) ==
    IF ~CancelJobRequestValid(r) THEN Rejected("CancelJobRequest", r)
    ELSE LET a == [job_id |-> r.job_id[1], reason |-> r.reason]
             uc == CancelJobExecute(a, CancelJobOutcome(a.job_id, fault))
             job == uc.out.value
         IN Handled("CancelJobRequest", r, "cancel_job", a, uc,
                    IF uc.out.kind /= "return" THEN <<>>
                    ELSE [job_id |-> job.job_id, cancelled_at |-> job.updated_at,
                          status |-> job.status, reason |-> r.reason])

JobSummary(job) ==
    [job_id |-> job.job_id, status |-> job.status, name |-> job.name,
     created_at |-> job.created_at]

\* MCPAdapter tool list_jobs
ListJobsTool(r, fault) ==
    IF ~ListJobsRequestValid(r) THEN Rejected("ListJobsRequest", r)
    ELSE LET a == ListJobsValidated(r)
             uc == ListJobsExecute(a, ListJobsOutcome(a.limit, a.offset,
                                                      a.status_filter, fault))
             v == uc.out.value
         IN Handled("ListJobsRequest", r, "list_jobs", a, uc,
                    IF uc.out.kind /= "return" THEN <<>>
                    ELSE [total_count |-> v.total_count,
                          jobs |-> [i \in DOMAIN v.jobs |-> JobSummary(v.jobs[i])],
                          next_offset |-> v.next_offset])

(***************************************************************************)
(* The tool calls a client can make                                        *)
(***************************************************************************)
\* A string of n characters.
TextOfLen(n) == [i \in 1..n |-> "a"]

\* The Authorization header a call arrives with.
ToolHeaders ==
    {None, Some(sBearer \o <<" ">> \o sAbcdx), Some(sBearer \o <<" ">> \o sAbcdefgh),
     Some(sBasic \o <<" ">> \o sAbcdx)}

ToolFaults == {"none", "ConnectionError"}

OptionalOf(S) == {None} \cup {Some(x) : x \in S}

SubmitRequests ==
    [job_name : OptionalOf({TextOfLen(n) : n \in {0, 1, MaxJobNameLen, MaxJobNameLen + 1}}),
     job_config : OptionalOf({{<<"docker_image", "python:3.11">>}}),
     instance_count : OptionalOf({0, 1, MaxInstanceCount, MaxInstanceCount + 1}),
     resource_type : OptionalOf({"CPU", "GPU", "cpu"}),
     priority : OptionalOf({MinPriority - 1, MinPriority, MaxPriority, MaxPriority + 1}),
     tags : OptionalOf({<<"test">>})]

JobIdRequests == [job_id : OptionalOf({<<>>, UnknownJobId, MakeJobId(<<"a">>, 0)})]

RetrieveRequests ==
    [job_id : OptionalOf({<<>>, UnknownJobId, MakeJobId(<<"a">>, 0)}),
     output_path : OptionalTexts]

CancelRequests ==
    [job_id : OptionalOf({<<>>, UnknownJobId, MakeJobId(<<"a">>, 0)}),
     reason : OptionalOf({<<>>, TextOfLen(MaxReasonLen), TextOfLen(MaxReasonLen + 1)})]

ListRequests ==
    [limit : OptionalOf({0, 1, 5, MaxListLimit, MaxListLimit + 1}),
     offset : OptionalOf({-1, 0, 7}),
     status_filter : OptionalOf(JobStatuses \cup {"", "RUNNING"})]

ToolCall(tool, header, r, fault) ==
    [tool |-> tool, header |-> header, request |-> r, fault |-> fault]

Init ==
    /\ validToken = sAbcdx
    /\ AuthIdle
    /\ UseCaseIdle
    /\ GatewayIdle
    /\ ClientIdle
    /\ clock \in 0..MaxClock
    /\ toolEvents = <<>>
    /\ toolOut = NoOutcome
    /\ \E header \in ToolHeaders, fault \in ToolFaults :
          \/ \E r \in SubmitRequests : toolCall = ToolCall("submit_job", header, r, fault)
          \/ \E r \in JobIdRequests : toolCall = ToolCall("get_job_status", header, r, fault)
          \/ \E r \in RetrieveRequests :
                toolCall = ToolCall("retrieve_job_results", header, r, fault)
          \/ \E r \in CancelRequests : toolCall = ToolCall("cancel_job", header, r, fault)
          \/ \E r \in ListRequests : toolCall = ToolCall("list_jobs", header, r, fault)

ToolDoes(result) ==
    /\ toolEvents' = result.events
    /\ toolOut' = result.out
    /\ UNCHANGED <<toolCall, authVars, ucVars, gwVars, clientVars>>

SubmitJob ==
    /\ toolCall.tool = "submit_job"
    /\ ToolDoes(SubmitJobTool(toolCall.request, clock, toolCall.fault))

GetJobStatus ==
    /\ toolCall.tool = "get_job_status"
    /\ ToolDoes(GetJobStatusTool(toolCall.request, toolCall.fault))

RetrieveJobResults ==
    /\ toolCall.tool = "retrieve_job_results"
    /\ ToolDoes(RetrieveJobResultsTool(toolCall.request, toolCall.fault))

CancelJob ==
    /\ toolCall.tool = "cancel_job"
    /\ ToolDoes(CancelJobTool(toolCall.request, toolCall.fault))

ListJobs ==
    /\ toolCall.tool = "list_jobs"
    /\ ToolDoes(ListJobsTool(toolCall.request, toolCall.fault))

Next ==
    \/ SubmitJob
    \/ GetJobStatus
    \/ RetrieveJobResults
    \/ CancelJob
    \/ ListJobs

Spec == Init /\ [][Next]_vars

ToolDone == toolOut.kind /= "none"

\* The positions of toolEvents at which a use case or the gateway ran.
BusinessSteps == {i \in DOMAIN toolEvents : toolEvents[i].layer \in {"use_case", "gateway"}}

ReachedUseCase == BusinessSteps /= {}

\* The arguments the handler gave to the use case.
UseCaseArgs ==
    toolEvents[CHOOSE i \in DOMAIN toolEvents : toolEvents[i].layer = "use_case"].args

\* The call's header carries a token that validate_token accepts.
CredentialValid ==
    LET got == ExtractTokenOutcome(toolCall.header) IN
    /\ got.kind = "return"
    /\ ValidateTokenOutcome(Some(got.value), validToken).kind = "return"

\* C1: for each of the five tools and every call, the use case (and hence
\* the gateway) is invoked only after the presented credential has been
\* extracted and validated successfully; a call with a missing, malformed or
\* invalid credential is rejected with no use case executed.
C1_AuthBeforeUseCase ==
    ToolDone =>
        /\ \A i \in BusinessSteps :
              \E k \in 1..(i - 1) :
                 /\ toolEvents[k].layer = "auth"
                 /\ toolEvents[k].op = "validate_token"
        /\ ~CredentialValid => (~ReachedUseCase /\ toolOut.kind /= "return")

SubmitDone == ToolDone /\ toolCall.tool = "submit_job"

\* The four constraints on a submit_job request.
SubmitFieldsInRange(r) ==
    /\ r.job_name /= None
    /\ Len(r.job_name[1]) \in 1..100
    /\ r.instance_count /= None
    /\ r.instance_count[1] \in 1..10000
    /\ r.resource_type /= None
    /\ r.resource_type[1] \in {"CPU", "GPU"}
    /\ r.priority /= None => r.priority[1] \in -100..100

ValidationFailed ==
    /\ toolOut.kind = "pydantic.ValidationError"
    /\ ~ReachedUseCase

ListDone == ToolDone /\ toolCall.tool = "list_jobs"

\* C8: a list_jobs call is accepted by input validation iff limit is in
\* 1..100 (default 10), offset is >= 0 (default 0) and status_filter is
\* absent or one of queued, running, completed, failed, cancelled; the job
\* status "submitted" is not an accepted filter, and a rejected call never
\* reaches the use case.
C8_ListAcceptedIffValid ==
    ListDone =>
        LET r == toolCall.request IN
        /\ ReachedUseCase <=>
              /\ r.limit /= None => r.limit[1] \in 1..100
              /\ r.offset /= None => r.offset[1] >= 0
              /\ r.status_filter /= None =>
                    r.status_filter[1] \in {"queued", "running", "completed",
                                            "failed", "cancelled"}
        /\ r.status_filter = Some("submitted") => ~ReachedUseCase
        /\ ~ReachedUseCase => ValidationFailed
        /\ (ReachedUseCase /\ r.limit = None) => UseCaseArgs.limit = 10
        /\ (ReachedUseCase /\ r.offset = None) => UseCaseArgs.offset = 0

\* A call filtering on "submitted", otherwise valid, was rejected.
C8_Witness ==
    /\ ListDone
    /\ toolCall.request.status_filter = Some("submitted")
    /\ toolCall.request.limit = Some(100)
    /\ toolCall.request.offset = None
    /\ ValidationFailed

====
